---- MODULE Spec2Model ----
(***************************************************************************)
(* Model of scripts/reverse-engineering/extract_decoder.py.                *)
(*                                                                         *)
(* A text (the input document, a fragment, the output file) is a sequence  *)
(* of chunks; every chunk is the literal text it stands for.  The chunks   *)
(* are chosen so that every literal and every regular expression of the    *)
(* script can only match on chunk boundaries: no pattern of the script     *)
(* matches across the seam of two chunks other than in the ways the        *)
(* pattern definitions below spell out.  Only the chunk NL holds a line    *)
(* break, which is the one character "." of a Python regular expression    *)
(* does not match (the script passes no re.DOTALL).                        *)
(*                                                                         *)
(* The input file is taken to be readable and the output file writable;    *)
(* a failing open() raises out of extract_decoder() and is not a run of    *)
(* the extraction state machine.                                           *)
(***************************************************************************)
EXTENDS Naturals, Sequences, FiniteSets

VARIABLES html, outFile, content, func_8b05, func_b4a0, shuffle_iife,
          config_str, stdout, tried, pc

vars == <<html, outFile, content, func_8b05, func_b4a0, shuffle_iife,
          config_str, stdout, tried, pc>>

----------------------------------------------------------------------------
(* Chunks of text                                                          *)

T8 == "function _0x8b05(){"
R8 == "return _0x8b05();}"
DS == "function _0xb4a0(_0x447697,_0x51a3a4){"
DN == "function _0xb4a0(){"
EA == "_0xb4a0(_0x447697,_0x51a3a4);}"
EB == "return _0x8b0550[t];}"
EX == "return _0x8b0550[u];}"
SS == "(function(_0x9dcbec,_0x4ab1b0){"
SN == "(function(_0x9dcbec){"
SE == "(_0x8b05,0x58bbd));"
NX == ",!(function"
WK == "window['ZpQw9XkLmN8c3vR3']="
QT == "'"
SC == ";"
XX == "/*x*/"
NL == "\n"
CONSTDECL == "const configString = "
EXPORTS == "module.exports = { _0xb4a0, configString };"

(* a variable that holds no text yet, and an output file that does not exist *)
Unset == <<"<unset>">>
NoFile == <<"<no file>">>
OldFile == <<"<old content>">>

----------------------------------------------------------------------------
(* Bounds and the documents of the model                                   *)

MaxSegs == 4
MaxDecLen == 4
MaxShufLen == 4
MaxCfgLen == 4

SeqsUpTo(S, n) == UNION {[1..k -> S] : k \in 0..n}

RECURSIVE Flatten(_)
Flatten(ss) == IF ss = <<>> THEN <<>> ELSE Head(ss) \o Flatten(Tail(ss))

(* whole sections of a page, in any order and number *)
Segments == { <<T8, R8>>, <<DS, EA>>, <<DN>>, <<SS, SE>>, <<SN, NX>>,
              <<WK, QT, XX, QT, SC>> }
PipelineDocs == {Flatten(ss) : ss \in SeqsUpTo(Segments, MaxSegs)}

(* a table function, then any text around the decoder function *)
DecoderDocs ==
    {<<T8, R8>> \o t : t \in SeqsUpTo({DS, DN, EA, EB, EX, SN, NL}, MaxDecLen)}

(* a table and a decoder function, then any text around the shuffle routine *)
ShuffleDocs ==
    {<<T8, R8, DS, EA>> \o t : t \in SeqsUpTo({SS, SN, SE, NX, NL}, MaxShufLen)}

(* the three functions, then the head of the assignment and any text after it *)
ConfigDocs ==
    {<<T8, R8, DS, EA, SS, SE, WK, QT>> \o t :
        t \in SeqsUpTo({QT, SC, XX, NL}, MaxCfgLen)}

Docs == PipelineDocs \cup DecoderDocs \cup ShuffleDocs \cup ConfigDocs

----------------------------------------------------------------------------
(* Searching                                                               *)

NoMatch == <<0, 0>>
NotFound == 0

(* the literal chunks tok occur in c at position i *)
MatchesAt(c, tok, i) ==
    /\ i >= 1
    /\ i + Len(tok) - 1 <= Len(c)
    /\ \A k \in 1..Len(tok) : c[i + k - 1] = tok[k]

(* ".*?" followed by end, tried from position k on: the first position    *)
(* end matches at, with nothing but characters other than a line break    *)
(* passed over; 0 when a line break or the end of the text comes first    *)
RECURSIVE LazyEnd(_, _, _)
LazyEnd(c, k, end) ==
    IF k > Len(c) THEN 0
    ELSE IF MatchesAt(c, end, k) THEN k
    ELSE IF c[k] = NL THEN 0
    ELSE LazyEnd(c, k + 1, end)

(* the scan of re.search over the start positions, leftmost first *)
RECURSIVE SearchFrom(_, _, _, _)
SearchFrom(c, i, start, end) ==
    IF i > Len(c) THEN NoMatch
    ELSE IF MatchesAt(c, start, i) /\ LazyEnd(c, i + Len(start), end) # 0
    THEN <<i, LazyEnd(c, i + Len(start), end) + Len(end) - 1>>
    ELSE SearchFrom(c, i + 1, start, end)

(* re.search(start .*? end, c): <<first, last>> of the match, or NoMatch *)
ReSearch(c, start, end) == SearchFrom(c, 1, start, end)

(* m.group(0) *)
Group0(c, m) == SubSeq(c, m[1], m[2])

(* c.find(sub, from) for a literal that occurs exactly at the head of the *)
(* chunks heads; positions count from 1, NotFound stands for -1           *)
RECURSIVE Find(_, _, _)
Find(c, heads, from) ==
    IF from > Len(c) THEN NotFound
    ELSE IF c[from] \in heads THEN from
    ELSE Find(c, heads, from + 1)

(* c[a:b] *)
Slice(c, a, b) == SubSeq(c, a, b - 1)

----------------------------------------------------------------------------
(* The four extraction procedures                                          *)

MsgNoTable == "Could not find _0x8b05 function"
MsgNoDecoderEnd == "Could not find end of _0xb4a0"
MsgNoDecoder == "Could not find _0xb4a0 function"
MsgNoShuffle == "Could not find shuffle IIFE"
MsgNoShuffleEnd == "Could not find end of shuffle IIFE"
MsgNoConfig == "Could not find config string"
MsgSuccess == "Successfully extracted decoder parts to decoder_parts.js"

Failed(msgs, strategies) ==
    [ok |-> FALSE, text |-> Unset, msgs |-> msgs, tried |-> strategies]
Found(text, msgs, strategies) ==
    [ok |-> TRUE, text |-> text, msgs |-> msgs, tried |-> strategies]

(* r"function _0x8b05\(\)\{.*?return _0x8b05\(\);\}" *)
SearchTable(c) == ReSearch(c, <<T8>>, <<R8>>)

LocateTable(c) ==
    LET match_8b05 == SearchTable(c)
    IN IF match_8b05 = NoMatch
       THEN Failed(<<MsgNoTable>>, <<"table">>)
       ELSE Found(Group0(c, match_8b05), <<>>, <<"table">>)

(* r"function _0xb4a0\([a-zA-Z0-9_,]+\)\{.*?_0xb4a0\([a-zA-Z0-9_,]+\)\;\}" *)
SearchDecoderA(c) == ReSearch(c, <<DS>>, <<EA>>)
(* r"function _0xb4a0\([a-zA-Z0-9_,]+\)\{.*?return _0x8b0550\[t\];\}" *)
SearchDecoderB(c) == ReSearch(c, <<DS>>, <<EB>>)

ScanDecoder_ThroughMarker(c) ==
    LET start_idx == Find(c, {DS, DN}, 1)
    IN IF start_idx = NotFound THEN <<NotFound, NotFound>>
       ELSE LET end_idx == Find(c, {SS, SN}, start_idx)
            IN <<start_idx, IF end_idx = NotFound THEN NotFound ELSE end_idx + 1>>

ScanDecoder_NoStartCheck(c) ==
    LET start_idx == Find(c, {DS, DN}, 1)
    IN IF start_idx = NotFound THEN <<1, Find(c, {SS, SN}, 1)>>
       ELSE <<start_idx, Find(c, {SS, SN}, start_idx)>>

(* start_idx = content.find("function _0xb4a0") and, when that is found,  *)
(* end_idx = content.find("(function(_0x9dcbec", start_idx)               *)
ScanDecoder(c) ==
    LET start_idx == Find(c, {DS, DN}, 1)
    IN IF start_idx = NotFound THEN <<NotFound, NotFound>>
       ELSE <<start_idx, Find(c, {SS, SN}, start_idx)>>

LocateDecoder_IndexedFirst(c) ==
    LET a == SearchDecoderA(c)
        b == SearchDecoderB(c)
        scan == ScanDecoder(c)
    IN IF b # NoMatch
       THEN Found(Group0(c, b), <<>>, <<"decoder a", "decoder b">>)
       ELSE IF a # NoMatch
       THEN Found(Group0(c, a), <<>>, <<"decoder a">>)
       ELSE IF scan[1] = NotFound
       THEN Failed(<<MsgNoDecoder>>, <<"decoder a", "decoder b", "decoder c">>)
       ELSE IF scan[2] = NotFound
       THEN Failed(<<MsgNoDecoderEnd>>, <<"decoder a", "decoder b", "decoder c">>)
       ELSE Found(Slice(c, scan[1], scan[2]), <<>>,
                  <<"decoder a", "decoder b", "decoder c">>)

LocateDecoder(c) ==
    LET a == SearchDecoderA(c)
        b == SearchDecoderB(c)
        scan == ScanDecoder(c)
    IN IF a # NoMatch
       THEN Found(Group0(c, a), <<>>, <<"decoder a">>)
       ELSE IF b # NoMatch
       THEN Found(Group0(c, b), <<>>, <<"decoder a", "decoder b">>)
       ELSE IF scan[1] = NotFound
       THEN Failed(<<MsgNoDecoder>>, <<"decoder a", "decoder b", "decoder c">>)
       ELSE IF scan[2] = NotFound
       THEN Failed(<<MsgNoDecoderEnd>>, <<"decoder a", "decoder b", "decoder c">>)
       ELSE Found(Slice(c, scan[1], scan[2]), <<>>,
                  <<"decoder a", "decoder b", "decoder c">>)

(* r"\(function\(_0x9dcbec,_0x4ab1b0\)\{.*?\(_0x8b05,0x[0-9a-f]+\)\)\;" *)
SearchShuffle(c) == ReSearch(c, <<SS>>, <<SE>>)

ScanShuffle_FromTop(c) ==
    LET start_idx == Find(c, {SS, SN}, 1)
    IN IF start_idx = NotFound THEN <<NotFound, NotFound>>
       ELSE <<start_idx, Find(c, {NX}, 1)>>

(* start_idx = content.find("(function(_0x9dcbec") and, when that is      *)
(* found, end_idx = content.find(",!(function", start_idx)                *)
ScanShuffle(c) ==
    LET start_idx == Find(c, {SS, SN}, 1)
    IN IF start_idx = NotFound THEN <<NotFound, NotFound>>
       ELSE <<start_idx, Find(c, {NX}, start_idx)>>

LocateShuffle_QuietStart(c) ==
    LET match_shuffle == SearchShuffle(c)
        scan == ScanShuffle(c)
    IN IF match_shuffle # NoMatch
       THEN Found(Group0(c, match_shuffle), <<>>, <<"shuffle pattern">>)
       ELSE IF scan[1] = NotFound
       THEN Failed(<<>>, <<"shuffle pattern", "shuffle scan">>)
       ELSE IF scan[2] = NotFound
       THEN Failed(<<MsgNoShuffleEnd>>, <<"shuffle pattern", "shuffle scan">>)
       ELSE Found(Slice(c, scan[1], scan[2]), <<>>,
                  <<"shuffle pattern", "shuffle scan">>)

LocateShuffle(c) ==
    LET match_shuffle == SearchShuffle(c)
        scan == ScanShuffle(c)
    IN IF match_shuffle # NoMatch
       THEN Found(Group0(c, match_shuffle), <<>>, <<"shuffle pattern">>)
       ELSE IF scan[1] = NotFound
       THEN Failed(<<MsgNoShuffle>>, <<"shuffle pattern", "shuffle scan">>)
       ELSE IF scan[2] = NotFound
       THEN Failed(<<MsgNoShuffle, MsgNoShuffleEnd>>,
                   <<"shuffle pattern", "shuffle scan">>)
       ELSE Found(Slice(c, scan[1], scan[2]), <<MsgNoShuffle>>,
                  <<"shuffle pattern", "shuffle scan">>)

(* r"window\['ZpQw9XkLmN8c3vR3'\]='(.*?)';" *)
SearchConfig(c) == ReSearch(c, <<WK, QT>>, <<QT, SC>>)

Group1_KeepsQuote(c, m) == SubSeq(c, m[1] + 2, m[2] - 1)

(* m.group(1): what lies between the opening and the closing quote *)
Group1(c, m) == SubSeq(c, m[1] + 2, m[2] - 2)

LocateConfig(c) ==
    LET match_config == SearchConfig(c)
    IN IF match_config = NoMatch
       THEN Failed(<<MsgNoConfig>>, <<"config">>)
       ELSE Found(Group1(c, match_config), <<>>, <<"config">>)

(* the five writes to the output file *)
Assemble_DecoderFirst(f1, f2, f3, cfg) ==
    f2 \o <<NL>> \o f1 \o <<NL>> \o f3 \o <<NL>>
       \o <<CONSTDECL, QT>> \o cfg \o <<QT, SC, NL>>
       \o <<EXPORTS, NL>>

Assemble(f1, f2, f3, cfg) ==
    f1 \o <<NL>> \o f2 \o <<NL>> \o f3 \o <<NL>>
       \o <<CONSTDECL, QT>> \o cfg \o <<QT, SC, NL>>
       \o <<EXPORTS, NL>>

----------------------------------------------------------------------------
(* The run of extract_decoder()                                            *)

Init ==
    /\ html \in Docs
    /\ outFile \in {NoFile, OldFile}
    /\ content = Unset
    /\ func_8b05 = Unset
    /\ func_b4a0 = Unset
    /\ shuffle_iife = Unset
    /\ config_str = Unset
    /\ stdout = <<>>
    /\ tried = <<>>
    /\ pc = "NotStarted"

Load ==
    /\ pc = "NotStarted"
    /\ content' = html
    /\ pc' = "Loaded"
    /\ UNCHANGED <<html, outFile, func_8b05, func_b4a0, shuffle_iife,
                   config_str, stdout, tried>>

ExtractTable_NoReturn ==
    /\ pc = "Loaded"
    /\ LET r == LocateTable(content)
       IN /\ func_8b05' = r.text
          /\ stdout' = stdout \o r.msgs
          /\ tried' = tried \o r.tried
          /\ pc' = "Fragment1Found"
    /\ UNCHANGED <<html, outFile, content, func_b4a0, shuffle_iife, config_str>>

ExtractTable ==
    /\ pc = "Loaded"
    /\ LET r == LocateTable(content)
       IN /\ func_8b05' = r.text
          /\ stdout' = stdout \o r.msgs
          /\ tried' = tried \o r.tried
          /\ pc' = IF r.ok THEN "Fragment1Found" ELSE "Aborted"
    /\ UNCHANGED <<html, outFile, content, func_b4a0, shuffle_iife, config_str>>

ExtractDecoder ==
    /\ pc = "Fragment1Found"
    /\ LET r == LocateDecoder(content)
       IN /\ func_b4a0' = r.text
          /\ stdout' = stdout \o r.msgs
          /\ tried' = tried \o r.tried
          /\ pc' = IF r.ok THEN "Fragment2Found" ELSE "Aborted"
    /\ UNCHANGED <<html, outFile, content, func_8b05, shuffle_iife, config_str>>

ExtractShuffle ==
    /\ pc = "Fragment2Found"
    /\ LET r == LocateShuffle(content)
       IN /\ shuffle_iife' = r.text
          /\ stdout' = stdout \o r.msgs
          /\ tried' = tried \o r.tried
          /\ pc' = IF r.ok THEN "Fragment3Found" ELSE "Aborted"
    /\ UNCHANGED <<html, outFile, content, func_8b05, func_b4a0, config_str>>

ExtractConfig_OpensFirst ==
    /\ pc = "Fragment3Found"
    /\ LET r == LocateConfig(content)
       IN /\ config_str' = r.text
          /\ stdout' = stdout \o r.msgs
          /\ tried' = tried \o r.tried
          /\ pc' = IF r.ok THEN "Fragment4Found" ELSE "Aborted"
    /\ outFile' = func_8b05 \o <<NL>> \o func_b4a0 \o <<NL>> \o shuffle_iife \o <<NL>>
    /\ UNCHANGED <<html, content, func_8b05, func_b4a0, shuffle_iife>>

ExtractConfig ==
    /\ pc = "Fragment3Found"
    /\ LET r == LocateConfig(content)
       IN /\ config_str' = r.text
          /\ stdout' = stdout \o r.msgs
          /\ tried' = tried \o r.tried
          /\ pc' = IF r.ok THEN "Fragment4Found" ELSE "Aborted"
    /\ UNCHANGED <<html, outFile, content, func_8b05, func_b4a0, shuffle_iife>>

WriteOutput ==
    /\ pc = "Fragment4Found"
    /\ outFile' = Assemble(func_8b05, func_b4a0, shuffle_iife, config_str)
    /\ stdout' = Append(stdout, MsgSuccess)
    /\ pc' = "Written"
    /\ UNCHANGED <<html, content, func_8b05, func_b4a0, shuffle_iife,
                   config_str, tried>>

Next ==
    \/ Load
    \/ ExtractTable
    \/ ExtractDecoder
    \/ ExtractShuffle
    \/ ExtractConfig
    \/ WriteOutput

Spec == Init /\ [][Next]_vars

----------------------------------------------------------------------------
(* Properties                                                              *)

Has(seq, x) == \E k \in 1..Len(seq) : seq[k] = x

Min(S) == CHOOSE m \in S : \A n \in S : m <= n

AllFound ==
    /\ func_8b05 # Unset
    /\ func_b4a0 # Unset
    /\ shuffle_iife # Unset
    /\ config_str # Unset

AllLocatable ==
    /\ LocateTable(html).ok
    /\ LocateDecoder(html).ok
    /\ LocateShuffle(html).ok
    /\ LocateConfig(html).ok

(* C1: the output file changes only in a step taken after all four         *)
(* fragments have been located; when one of the four cannot be located in  *)
(* the document, no step of the run creates or modifies the output file.   *)
C1_AllOrNothing ==
    [][ /\ (outFile' # outFile) =>
             (AllFound /\ AllLocatable /\ pc = "Fragment4Found")
        /\ (pc' = "Aborted") => (outFile' = outFile) ]_vars

(* a run that found three fragments, missed the fourth and left the        *)
(* pre-existing file as it was                                             *)
C1_Witness ==
    /\ pc = "Aborted"
    /\ shuffle_iife # Unset
    /\ config_str = Unset
    /\ outFile = OldFile

(* C2: the file a successful run writes is the table fragment, the decoder *)
(* fragment, the shuffle fragment, the configString line and the export    *)
(* line, each ended by a line break, in that order, whatever the order of  *)
(* the four markers in the document.                                       *)
C2_FixedOrder ==
    pc = "Written" =>
        outFile = LocateTable(html).text \o <<NL>>
                  \o LocateDecoder(html).text \o <<NL>>
                  \o LocateShuffle(html).text \o <<NL>>
                  \o <<CONSTDECL, QT>> \o LocateConfig(html).text \o <<QT, SC, NL>>
                  \o <<EXPORTS, NL>>

(* a successful run on a document that holds the configuration assignment  *)
(* first and the table function after the decoder function                 *)
C2_Witness ==
    /\ pc = "Written"
    /\ html[1] = WK
    /\ Find(html, {DS, DN}, 1) < Find(html, {T8}, 1)

(* an assignment window['ZpQw9XkLmN8c3vR3']='PAYLOAD'; whose opening quote  *)
(* is at i + 1 and whose closing quote is at j                             *)
IsAssignment(c, i, j) ==
    /\ MatchesAt(c, <<WK, QT>>, i)
    /\ j >= i + 2
    /\ MatchesAt(c, <<QT, SC>>, j)

PayloadOf(c, i, j) == SubSeq(c, i + 2, j - 1)

FirstAssignmentHead(c) ==
    Min({i \in 1..Len(c) : MatchesAt(c, <<WK, QT>>, i)} \cup {Len(c) + 1})

PlainPayload(t) ==
    /\ \A k \in 1..Len(t) : t[k] # NL
    /\ \A k \in 1..(Len(t) - 1) : ~(t[k] = QT /\ t[k + 1] = SC)

(* C3 as stated: once the configuration step has run, the captured payload *)
(* equals the text between the quotes of the assignment, for every         *)
(* assignment of the document and every payload.                           *)
C3_AnyPayload ==
    Has(tried, "config") =>
        \A i, j \in 1..Len(html) :
            IsAssignment(html, i, j) => config_str = PayloadOf(html, i, j)

(* C3 amended: once the configuration step has run, the captured payload   *)
(* equals the text between the quotes of the first assignment of the       *)
(* document whenever that text holds neither a line break nor a quote      *)
(* followed by a semicolon; the empty payload is captured as empty.        *)
C3_PlainPayload ==
    Has(tried, "config") =>
        \A i, j \in 1..Len(html) :
            ( /\ IsAssignment(html, i, j)
              /\ i = FirstAssignmentHead(html)
              /\ PlainPayload(PayloadOf(html, i, j)) )
            => config_str = PayloadOf(html, i, j)

(* the empty payload, captured from window['ZpQw9XkLmN8c3vR3']='';         *)
C3_Witness ==
    /\ pc = "Fragment4Found"
    /\ IsAssignment(html, FirstAssignmentHead(html), FirstAssignmentHead(html) + 2)
    /\ config_str = <<>>

(* the decoder function of the document: its declaration, and the end of   *)
(* its body where neither end pattern of the script recognises it          *)
DeclStart(c) == Find(c, {DS}, 1)
FuncEnd(c) == IF DeclStart(c) = NotFound THEN NotFound ELSE Find(c, {EX}, DeclStart(c))

(* the same document with the precise end token at the end of the function *)
WithPreciseEnd(c) == [c EXCEPT ![FuncEnd(c)] = EA]

UsedPositionalFallback ==
    /\ Has(tried, "decoder c")
    /\ func_b4a0 # Unset

(* the document declares the decoder function once and names it nowhere   *)
(* else, and the next-section marker follows the end of the function      *)
MarkerFollowsFunction(c) ==
    /\ FuncEnd(c) # NotFound
    /\ Cardinality({k \in 1..Len(c) : c[k] \in {DS, DN}}) = 1
    /\ Find(c, {SS, SN}, FuncEnd(c)) # NotFound

(* C4 as stated: a fragment produced by the positional fallback, for a     *)
(* document where only the marker follows the decoder function, has the    *)
(* boundaries the precise strategy produces for the same function when its *)
(* precise end token is present.                                           *)
C4_SameBoundaries ==
    (UsedPositionalFallback /\ MarkerFollowsFunction(html)) =>
        LET m == SearchDecoderA(WithPreciseEnd(html))
        IN /\ m # NoMatch
           /\ func_b4a0 = Group0(html, m)

(* the function is the first text "function _0xb4a0" of the document, lies *)
(* on one line, and the marker is the very next text after its end         *)
MarkerAdjacent(c) ==
    /\ FuncEnd(c) # NotFound
    /\ Find(c, {DS, DN}, 1) = DeclStart(c)
    /\ \A k \in DeclStart(c)..FuncEnd(c) : c[k] # NL
    /\ Find(c, {SS, SN}, DeclStart(c)) = FuncEnd(c) + 1

(* C4 amended: a fragment produced by the positional fallback has the      *)
(* boundaries of the precise match for the same function when the          *)
(* declaration is the first occurrence of "function _0xb4a0", the function *)
(* lies on one line and the marker "(function(_0x9dcbec" comes right after *)
(* the end of the function.                                                *)
C4_SameBoundariesWhenAdjacent ==
    (UsedPositionalFallback /\ MarkerAdjacent(html)) =>
        LET m == SearchDecoderA(WithPreciseEnd(html))
        IN /\ m # NoMatch
           /\ func_b4a0 = Group0(html, m)

(* the fallback has cut out a function of more than its two ends *)
C4_Witness ==
    /\ UsedPositionalFallback
    /\ MarkerAdjacent(html)
    /\ Len(func_b4a0) > 2

PastDecoder ==
    \/ pc \in {"Fragment2Found", "Fragment3Found", "Fragment4Found", "Written"}
    \/ Has(tried, "shuffle pattern")
    \/ shuffle_iife # Unset
    \/ config_str # Unset
    \/ outFile \notin {NoFile, OldFile}

(* C5 as stated: without a declaration "function _0xb4a0(" with a list of  *)
(* parameters and "){" in the document, the run never gets past the        *)
(* decoder step.                                                           *)
C5_NoDeclarationAborts ==
    (\A k \in 1..Len(html) : html[k] # DS) => ~PastDecoder

(* C5 amended: without any occurrence of the text "function _0xb4a0" in    *)
(* the document, the run never gets past the decoder step: once the table  *)
(* function is found the decoder step aborts the run with the message that *)
(* the function is missing, no later fragment is extracted and the output  *)
(* file is not written.                                                    *)
C5_NoNameAborts ==
    (\A k \in 1..Len(html) : html[k] \notin {DS, DN}) =>
        /\ ~PastDecoder
        /\ Has(tried, "decoder a") =>
              (pc = "Aborted" /\ stdout = <<MsgNoDecoder>>)

(* the decoder step has aborted a run whose document holds the marker of   *)
(* the next section but not the name of the decoder function               *)
C5_Witness ==
    /\ \A k \in 1..Len(html) : html[k] \notin {DS, DN}
    /\ Has(html, SN)
    /\ Has(tried, "decoder c")
    /\ pc = "Aborted"

(* C6 as stated: a run that has written the output file has emitted the    *)
(* success message and nothing else.                                       *)
C6_OneMessageOnSuccess ==
    pc = "Written" => stdout = <<MsgSuccess>>

FailedFragmentMessages ==
    IF func_8b05 = Unset THEN {MsgNoTable}
    ELSE IF func_b4a0 = Unset THEN {MsgNoDecoder, MsgNoDecoderEnd}
    ELSE IF shuffle_iife = Unset THEN {MsgNoShuffle, MsgNoShuffleEnd}
    ELSE {MsgNoConfig}

(* C7: a run that has aborted has emitted at least one message, and one of *)
(* its messages names the fragment that could not be located.              *)
C7_NeverSilent ==
    pc = "Aborted" =>
        /\ stdout # <<>>
        /\ \E k \in 1..Len(stdout) : stdout[k] \in FailedFragmentMessages

(* the run has aborted at the shuffle step of a document that holds no     *)
(* start token of the shuffle routine: the return of line 64               *)
C7_Witness ==
    /\ pc = "Aborted"
    /\ func_b4a0 # Unset
    /\ \A k \in 1..Len(html) : html[k] \notin {SS, SN}

StrategiesAt(p) ==
    CASE p = "Loaded" -> {"table"}
      [] p = "Fragment1Found" -> {"decoder a", "decoder b", "decoder c"}
      [] p = "Fragment2Found" -> {"shuffle pattern", "shuffle scan"}
      [] p = "Fragment3Found" -> {"config"}
      [] OTHER -> {}

RunSteps ==
    { <<"NotStarted", "Loaded">>,
      <<"Loaded", "Fragment1Found">>, <<"Loaded", "Aborted">>,
      <<"Fragment1Found", "Fragment2Found">>, <<"Fragment1Found", "Aborted">>,
      <<"Fragment2Found", "Fragment3Found">>, <<"Fragment2Found", "Aborted">>,
      <<"Fragment3Found", "Fragment4Found">>, <<"Fragment3Found", "Aborted">>,
      <<"Fragment4Found", "Written">> }

(* the fragments found so far are exactly those of the steps passed *)
FoundSoFar ==
    /\ (func_8b05 # Unset) <=>
          \/ pc \in {"Fragment1Found", "Fragment2Found", "Fragment3Found",
                     "Fragment4Found", "Written"}
          \/ pc = "Aborted" /\ Has(tried, "decoder a")
    /\ (func_b4a0 # Unset) <=>
          \/ pc \in {"Fragment2Found", "Fragment3Found", "Fragment4Found", "Written"}
          \/ pc = "Aborted" /\ Has(tried, "shuffle pattern")
    /\ (shuffle_iife # Unset) <=>
          \/ pc \in {"Fragment3Found", "Fragment4Found", "Written"}
          \/ pc = "Aborted" /\ Has(tried, "config")
    /\ (config_str # Unset) <=> pc \in {"Fragment4Found", "Written"}

(* C8: every step of a run is one of NotStarted to Loaded, a fragment step *)
(* to the next fragment state or to Aborted, and Fragment4Found to         *)
(* Written; a step attempts only strategies of the fragment it is at, each *)
(* at most once, and only with all earlier fragments found; no step leaves *)
(* Aborted or Written; and a run can stop nowhere but in Written or in     *)
(* Aborted.                                                                *)
C8_RunStateMachine ==
    [][ /\ <<pc, pc'>> \in RunSteps
        /\ Len(tried') >= Len(tried)
        /\ SubSeq(tried', 1, Len(tried)) = tried
        /\ \A k \in (Len(tried) + 1)..Len(tried') :
              /\ tried'[k] \in StrategiesAt(pc)
              /\ ~Has(tried, tried'[k])
        /\ (pc' = "Written") => (outFile' # outFile)
        /\ FoundSoFar'
        /\ (pc' \in {"Written", "Aborted"}) \/ (ENABLED Next)' ]_vars

(* a run aborted at the third fragment: the fourth was never attempted *)
C8_Witness ==
    /\ pc = "Aborted"
    /\ func_b4a0 # Unset
    /\ shuffle_iife = Unset
    /\ ~Has(tried, "config")

DecoderTried == SelectSeq(tried, LAMBDA t : t \in StrategiesAt("Fragment1Found"))

(* C9: once the decoder step has run, the decoder fragment is the match of *)
(* pattern (a) wherever (a) matches, with nothing else consulted; else the *)
(* match of pattern (b), with (a) and (b) consulted; else, all three       *)
(* consulted, the text from the first "function _0xb4a0" up to, and not    *)
(* including, the first marker after it, the run aborting when either is   *)
(* missing.                                                                *)
C9_DecoderPriority ==
    Has(tried, "decoder a") =>
        LET a == ReSearch(html, <<DS>>, <<EA>>)
            b == ReSearch(html, <<DS>>, <<EB>>)
            names == {k \in 1..Len(html) : html[k] \in {DS, DN}}
            markers == {k \in 1..Len(html) :
                          html[k] \in {SS, SN} /\ names # {} /\ k > Min(names)}
        IN IF a # NoMatch
           THEN /\ func_b4a0 = SubSeq(html, a[1], a[2])
                /\ DecoderTried = <<"decoder a">>
           ELSE IF b # NoMatch
           THEN /\ func_b4a0 = SubSeq(html, b[1], b[2])
                /\ DecoderTried = <<"decoder a", "decoder b">>
           ELSE /\ DecoderTried = <<"decoder a", "decoder b", "decoder c">>
                /\ IF markers # {}
                   THEN func_b4a0 = SubSeq(html, Min(names), Min(markers) - 1)
                   ELSE func_b4a0 = Unset /\ pc = "Aborted"

(* pattern (a) has won although (b) matches a different text and the       *)
(* positional scan would cut out yet another                               *)
C9_Witness ==
    /\ pc = "Fragment2Found"
    /\ SearchDecoderA(html) # NoMatch
    /\ SearchDecoderB(html) # NoMatch
    /\ SearchDecoderB(html) # SearchDecoderA(html)
    /\ func_b4a0 = Group0(html, SearchDecoderA(html))

(* C10: once the shuffle step has run on a document the combined pattern   *)
(* matches nowhere, the run has gone on only if the start token is present *)
(* with the marker ",!(function" after it, the fragment being the text     *)
(* from the first start token up to, and not including, the first such     *)
(* marker; otherwise the run has aborted and the output file is as before. *)
C10_ShuffleFallback ==
    (Has(tried, "shuffle pattern") /\ ReSearch(html, <<SS>>, <<SE>>) = NoMatch) =>
        LET starts == {k \in 1..Len(html) : html[k] \in {SS, SN}}
            markers == {k \in 1..Len(html) :
                          html[k] = NX /\ starts # {} /\ k > Min(starts)}
        IN IF markers # {}
           THEN /\ shuffle_iife = SubSeq(html, Min(starts), Min(markers) - 1)
                /\ (pc = "Aborted") => Has(tried, "config")
           ELSE /\ shuffle_iife = Unset
                /\ pc = "Aborted"
                /\ ~Has(tried, "config")
                /\ outFile \in {NoFile, OldFile}

(* the fallback has cut out a shuffle routine although the marker also     *)
(* occurs before the start token                                           *)
C10_Witness ==
    /\ pc = "Fragment3Found"
    /\ SearchShuffle(html) = NoMatch
    /\ Find(html, {NX}, 1) < Find(html, {SS, SN}, 1)
    /\ Len(shuffle_iife) > 1

====
